---- MODULE Spec2Model ----
(***************************************************************************)
(* State-machine model of tenpy/algorithms/mps_sweeps.py (class Sweep):    *)
(* the sweep schedule, one sweep call with its per-step hook sequence,     *)
(* the sweep-counter / chi_max / mixer bookkeeping, mixer_cleanup,         *)
(* environment_sweeps, reset_stats and init_env.                           *)
(*                                                                         *)
(* Tensors are abstracted to what the control flow of the engine reads:    *)
(* an environment is the pair of cache maps LP, RP (bond index -> age, or  *)
(* None when nothing is cached) together with the operator H it was built  *)
(* from; a local update yields a truncation error and an energy shift.     *)
(***************************************************************************)
EXTENDS Integers, Sequences, FiniteSets, TLC

\* ------------------------------------------------------------------ bounds
\* largest chain length of an engine
MaxL == 3
\* largest chain length handed to get_sweep_schedule alone
MaxSchedL == 20
\* largest number of sweep calls started on one engine
MaxCalls == 2
\* number of leading steps of a sweep whose local update may report a
\* truncation error > 0; the updates of later steps report 0
MaxTruncating == 2
\* longest chain handed to mps_compress and apply_mpo
MaxCompressL == 3
\* largest dimension of an internal bond of a state handed to them
MaxChi == 2
\* largest dimension of a bond of the operator handed to apply_mpo
MaxD == 2
\* largest chi_max in trunc_par
MaxCap == 2
\* dimension of the physical leg of every site
PhysDim == 2

\* Python's None, and a value that is present: an optional value is the empty
\* tuple or a one-element tuple.
None == <<>>
Some(x) == <<x>>
Get(o) == o[1]

\* ----------------------------------------------------------- python helpers
\* list(range(a, b))
Range(a, b) == [i \in 1..(IF b > a THEN b - a ELSE 0) |-> a + i - 1]

\* list(range(a, b, -1))
RangeDown(a, b) == [i \in 1..(IF a > b THEN a - b ELSE 0) |-> a - i + 1]

\* [x] * n  (the empty list when n <= 0)
Repeat(x, n) == [i \in 1..(IF n > 0 THEN n ELSE 0) |-> x]

\* zip(a, b): stops at the shorter list
Zip(a, b) == [i \in 1..(IF Len(a) < Len(b) THEN Len(a) ELSE Len(b)) |-> <<a[i], b[i]>>]

\* np.max of a non-empty list of numbers
NpMax(s) == CHOOSE m \in {s[i] : i \in 1..Len(s)} : \A j \in 1..Len(s) : s[j] <= m

\* the keys of a python dict, modelled as a function
Keys(d) == DOMAIN d

\* ------------------------------------------------------ get_sweep_schedule
\* Swapped halves: the backward half listed first (a mutant of the schedule).
get_sweep_schedule_Reversed(L, finite) ==
    IF finite
    THEN [schedule_i0 |-> RangeDown(L - 3, 0) \o Range(0, L - 1),
          update_LP_RP |-> Repeat(<<FALSE, TRUE>>, L - 2) \o Repeat(<<TRUE, FALSE>>, L - 2)]
    ELSE [schedule_i0 |-> RangeDown(L, 0) \o Range(0, L),
          update_LP_RP |-> Repeat(<<TRUE, TRUE>>, 2) \o Repeat(<<FALSE, TRUE>>, L - 2)
                           \o Repeat(<<TRUE, TRUE>>, 2) \o Repeat(<<TRUE, FALSE>>, L - 2)]

\* The way back starting one bond further right (a mutant of the schedule).
get_sweep_schedule_LongWayBack(L, finite) ==
    IF finite
    THEN [schedule_i0 |-> Range(0, L - 1) \o RangeDown(L - 2, 0),
          update_LP_RP |-> Repeat(<<TRUE, FALSE>>, L - 2) \o Repeat(<<FALSE, TRUE>>, L - 1)]
    ELSE [schedule_i0 |-> Range(0, L) \o RangeDown(L, 0),
          update_LP_RP |-> Repeat(<<TRUE, TRUE>>, 2) \o Repeat(<<TRUE, FALSE>>, L - 2)
                           \o Repeat(<<TRUE, TRUE>>, 2) \o Repeat(<<FALSE, TRUE>>, L - 2)]

\* Sweep.get_sweep_schedule: the two lists it returns, for env.L = L and
\* env.finite = finite (the infinite branch asserts L >= 2 first).
get_sweep_schedule(L, finite) ==
    IF finite
    THEN [schedule_i0 |-> Range(0, L - 1) \o RangeDown(L - 3, 0),
          update_LP_RP |-> Repeat(<<TRUE, FALSE>>, L - 2) \o Repeat(<<FALSE, TRUE>>, L - 2)]
    ELSE [schedule_i0 |-> Range(0, L) \o RangeDown(L, 0),
          update_LP_RP |-> Repeat(<<TRUE, TRUE>>, 2) \o Repeat(<<TRUE, FALSE>>, L - 2)
                           \o Repeat(<<TRUE, TRUE>>, 2) \o Repeat(<<FALSE, TRUE>>, L - 2)]

\* the assert of the infinite branch
schedule_assert_ok(L, finite) == finite \/ L >= 2

\* ------------------------------------------------- environment cache maps
\* An environment (MPOEnvironment / MPSEnvironment, tenpy.networks): chain
\* length and boundary condition of the state, the operator H (None for an
\* overlap environment), the target state ket (0: the state itself), and the
\* two caches mapping a bond index to the age of the cached part, or None.
NewEnvironment(L, finite, H, ket, LP_age, RP_age) ==
    [L |-> L, finite |-> finite, H |-> H, ket |-> ket,
     LP |-> [i \in 0..(L - 1) |-> IF i = 0 THEN Some(LP_age) ELSE None],
     RP |-> [i \in 0..(L - 1) |-> IF i = L - 1 THEN Some(RP_age) ELSE None]]

\* index of bond i in the cache (wraps around on an infinite chain)
Idx(e, i) == IF e.finite THEN i ELSE i % e.L

HasLP(e, i) == (e.finite => i \in 0..(e.L - 1)) /\ e.LP[Idx(e, i)] # None
HasRP(e, i) == (e.finite => i \in 0..(e.L - 1)) /\ e.RP[Idx(e, i)] # None

get_LP_age(e, i) == e.LP[Idx(e, i)]
get_RP_age(e, i) == e.RP[Idx(e, i)]

set_LP(e, i, age) == [e EXCEPT !.LP[Idx(e, i)] = Some(age)]
set_RP(e, i, age) == [e EXCEPT !.RP[Idx(e, i)] = Some(age)]

\* distance from i to the nearest cached left part at or below i
LeftGap(e, i) ==
    CHOOSE d \in 0..(e.L - 1) : HasLP(e, i - d) /\ \A c \in 0..(d - 1) : ~HasLP(e, i - c)

\* distance from i to the nearest cached right part at or above i
RightGap(e, i) ==
    CHOOSE d \in 0..(e.L - 1) : HasRP(e, i + d) /\ \A c \in 0..(d - 1) : ~HasRP(e, i + c)

\* get_LP(i, store): a cached part is returned as it is; a missing one is
\* contracted site by site from the nearest cached one and, with store, each
\* intermediate part is cached with age = previous age + 1.
get_LP(e, i, store) ==
    LET d == LeftGap(e, i)
        age0 == Get(get_LP_age(e, i - d))
    IN  IF ~store THEN e
        ELSE [e EXCEPT !.LP = [j \in DOMAIN e.LP |->
                 IF \E t \in 1..d : Idx(e, i - d + t) = j
                 THEN Some(age0 + (CHOOSE t \in 1..d : Idx(e, i - d + t) = j))
                 ELSE e.LP[j]]]

get_RP(e, i, store) ==
    LET d == RightGap(e, i)
        age0 == Get(get_RP_age(e, i + d))
    IN  IF ~store THEN e
        ELSE [e EXCEPT !.RP = [j \in DOMAIN e.RP |->
                 IF \E t \in 1..d : Idx(e, i + d - t) = j
                 THEN Some(age0 + (CHOOSE t \in 1..d : Idx(e, i + d - t) = j))
                 ELSE e.RP[j]]]

\* --------------------------------------------------------------- operators
\* Two chain operators a model can hand to init_env; their first tensors
\* have different left-auxiliary legs.
Models == {"H", "G"}
wL_leg(H) == IF H = "H" THEN "wL_a" ELSE "wL_b"

\* ------------------------------------------------------------------- mixer
\* A mixer state: its amplitude and the sweep count at which it switches off.
Mixers == [amplitude : {1, 2}, disable_after : {2}]

\* Mixer.update_amplitude(sweeps): the successor state with a smaller
\* amplitude, or None once the mixer is switched off.
update_amplitude(m, n) ==
    IF n >= m.disable_after \/ m.amplitude - 1 <= 0
    THEN None
    ELSE Some([m EXCEPT !.amplitude = @ - 1])

\* ----------------------------------------------------------- configuration
\* chi_list engine parameter: None, or a dict sweep index -> chi_max
ChiLists == {None, Some(1 :> 10 @@ 2 :> 30)}
\* orthogonal_to engine parameter: how many states to stay orthogonal to
OrthoCounts == {0, 2}
\* start_env engine parameter, and N_sweeps of environment_sweeps
StartEnvs == {0, 1}
\* truncation errors a local update can report
TruncErrs == {0, 1}

\* ------------------------------------------------------------------- state
VARIABLES
    env,              \* self.env: the operator environment
    engine_params,    \* [chi_list, sweep_0, start_env, orthogonal_to, LP_age, RP_age]
    length,           \* self.EffectiveH.length: 1 (OneSiteH) or 2 (TwoSiteH)
    combine,          \* self.combine
    strategy,         \* "abstract": the hooks of Sweep itself; "concrete": a subclass's
    sweeps,           \* self.sweeps
    chi_list,         \* self.chi_list
    chi_max,          \* self.trunc_params['chi_max'] (None: no such key)
    mixer,            \* self.mixer
    ortho_to_envs,    \* self.ortho_to_envs
    E_trunc_list,     \* self.E_trunc_list
    trunc_err_list,   \* self.trunc_err_list
    pc,               \* where control is
    op,               \* the call made from outside that is running, or ran last
    stack,            \* callers of the running sweep that still have work to do
    optimize,         \* sweep(): argument
    meas_E_trunc,     \* sweep(): argument
    schedule_i0,      \* sweep(): local
    update_LP_RP,     \* sweep(): local
    k,                \* sweep(): 1-based position of the for loop in the zipped lists
    update_data,      \* sweep(): local
    ret,              \* value returned by the last call that returned
    err,              \* exception that ended the last call, "" when none
    warned,           \* diagnostics emitted by the call made from outside
    ncalls,           \* history: sweep calls started so far
    trace,            \* history: hook and cache-update calls of the current sweep call
    sched,            \* result of a first get_sweep_schedule call made on its own
    sched2,           \* result of a second one
    psi,              \* mps_compress / apply_mpo: the state handed in
    mpo,              \* apply_mpo: the operator handed in
    trunc_par,        \* chi_max of the truncation parameters
    Bs,               \* apply_mpo: the list of fused tensors
    new_mps,          \* apply_mpo: the state built from Bs
    B,                \* mps_compress: local B
    site,             \* mps_compress: loop variable i
    cpc,              \* where control is in mps_compress / apply_mpo
    called,           \* the function called from outside
    result,           \* what the call returned, or the exception it raised
    accesses,         \* history: get_B, set_B and set_SL calls on the state being compressed
    truncated,        \* history: per bond, what truncate() answered
    env_bound,        \* whether the module's global name env is bound to an environment
    stale             \* history: cached parts of self.env that are not the contraction
                      \* of the current tensors, [LP, RP] (finite chain)

config == <<engine_params, length, combine, strategy, env_bound>>
bookkeeping == <<sweeps, chi_list, chi_max, mixer>>
caches == <<env, ortho_to_envs, stale>>
lists == <<E_trunc_list, trunc_err_list>>
locals == <<optimize, meas_E_trunc, schedule_i0, update_LP_RP, k, update_data>>
scheds == <<sched, sched2>>
engine == <<config, bookkeeping, caches, lists, locals, pc, op, stack, ret, err, warned,
            ncalls, trace, scheds>>
compress == <<psi, mpo, trunc_par, Bs, new_mps, B, site, cpc, called, result, accesses,
              truncated>>
vars == <<env, engine_params, length, combine, strategy, sweeps, chi_list, chi_max,
          mixer, ortho_to_envs, E_trunc_list, trunc_err_list, pc, op, stack, optimize,
          meas_E_trunc, schedule_i0, update_LP_RP, k, update_data, ret, err, warned,
          ncalls, trace, sched, sched2, psi, mpo, trunc_par, Bs, new_mps, B, site, cpc,
          called, result, accesses, truncated, env_bound, stale>>

\* self.finite (set from the environment's state in __init__)
finite == env.finite

\* the steps the for loop of sweep() runs over
Steps == Zip(schedule_i0, update_LP_RP)
i0 == schedule_i0[k]
upd_env == update_LP_RP[k]

\* ------------------------------------------------------------------- init
\* The engine as the attribute assignments of __init__ leave it, holding an
\* environment of the state and the model's operator.  Line 48 takes the
\* environment from the name env, which neither __init__ nor the module
\* binds: it is there only when the caller has put an environment into the
\* module's namespace (env_bound).  self.sweeps is not assigned before
\* reset_stats; 0 stands for the missing attribute.
\* no cached part is out of date
NoStale == [LP |-> {}, RP |-> {}]

EngineParams ==
    [chi_list : ChiLists, sweep_0 : {0, 1}, start_env : StartEnvs,
     orthogonal_to : OrthoCounts, LP_age : {0}, RP_age : {0}]

EngineInit(L, fin, len, comb, strat, params) ==
    /\ env = NewEnvironment(L, fin, "H", 0, 0, 0)
    /\ stale = NoStale
    /\ length = len
    /\ combine = comb
    /\ strategy = strat
    /\ engine_params = params
    /\ sweeps = 0 /\ chi_list = None /\ chi_max = None /\ mixer = None
    /\ ortho_to_envs = <<>>
    /\ E_trunc_list = <<>> /\ trunc_err_list = <<>>
    /\ op = "__init__" /\ stack = <<>>
    /\ optimize = FALSE /\ meas_E_trunc = FALSE
    /\ schedule_i0 = <<>> /\ update_LP_RP = <<>> /\ k = 0 /\ update_data = None
    /\ ret = None /\ err = "" /\ warned = {}
    /\ ncalls = 0 /\ trace = <<>>
    /\ sched = None /\ sched2 = None

\* no call of mps_compress or apply_mpo is in progress
NoCompress ==
    /\ psi = None /\ mpo = None /\ trunc_par = None /\ Bs = None /\ new_mps = None
    /\ B = None /\ site = 0 /\ cpc = "" /\ called = "" /\ result = None
    /\ accesses = <<>> /\ truncated = <<>>

Init ==
    \E L \in 2..MaxL, fin \in BOOLEAN, len \in {1, 2}, comb \in BOOLEAN,
       strat \in {"abstract", "concrete"}, params \in EngineParams :
        /\ fin => params.start_env = 0   \* start_env is read on an infinite chain only
        /\ EngineInit(L, fin, len, comb, strat, params)
        /\ NoCompress
        /\ env_bound \in BOOLEAN
        /\ pc = "__init__"

\* ---------------------------------------------------------- call and return
TopLevel == pc \in {"idle", "error"}

\* the locals of sweep() are gone once it has returned or raised
NoLocals ==
    /\ optimize' = FALSE /\ meas_E_trunc' = FALSE
    /\ schedule_i0' = <<>> /\ update_LP_RP' = <<>> /\ k' = 0 /\ update_data' = None

\* an exception propagates to the caller from outside: no frame catches it
Raise(o, e) ==
    /\ pc' = IF o = "__init__" THEN "dead" ELSE "error"
    /\ err' = e
    /\ stack' = <<>>
    /\ ret' = None
    /\ NoLocals

\* a function returns v; stk are the frames below it
Return(stk, v) ==
    /\ pc' = IF stk = <<>> THEN "idle" ELSE "returned"
    /\ stack' = stk
    /\ ret' = v
    /\ err' = ""
    /\ NoLocals

Frame(fn, remaining, m) == [fn |-> fn, remaining |-> remaining, mixer |-> m]

\* ---- Sweep.__init__, lines 46-65: the attribute assignments.  self.env = env
\* ---- (line 48) raises NameError when the name env is not bound; otherwise
\* ---- __init__ goes on to init_env(model) (line 67).
Sweep_init ==
    /\ pc = "__init__"
    /\ IF env_bound
       THEN /\ pc' = "init_env"
            /\ UNCHANGED <<locals, stack, ret, err>>
       ELSE Raise("__init__", "NameError(env)")
    /\ UNCHANGED <<config, bookkeeping, caches, lists, op, warned, ncalls, trace, scheds,
                   compress>>

\* ------------------------------------------------------------------- sweep
\* sweep(), lines 194-196, keeping what the lists held before (a mutant)
sweep_begin_KeepLists(opt, meas) ==
    LET s == get_sweep_schedule(env'.L, env'.finite)
    IN  /\ UNCHANGED <<E_trunc_list, trunc_err_list>>
        /\ optimize' = opt
        /\ meas_E_trunc' = meas
        /\ schedule_i0' = s.schedule_i0
        /\ update_LP_RP' = s.update_LP_RP
        /\ k' = 1
        /\ update_data' = None
        /\ pc' = IF Len(Zip(s.schedule_i0, s.update_LP_RP)) >= 1
                 THEN "loop" ELSE "sweep_end"
        /\ ncalls' = ncalls + 1
        /\ trace' = <<>>

\* sweep(), lines 194-196: the per-sweep lists are emptied and the schedule
\* is taken; control is then at the head of the for loop.  The caller has
\* already fixed the primed environment the sweep starts from.
sweep_begin(opt, meas) ==
    LET s == get_sweep_schedule(env'.L, env'.finite)
    IN  /\ E_trunc_list' = <<>>
        /\ trunc_err_list' = <<>>
        /\ optimize' = opt
        /\ meas_E_trunc' = meas
        /\ schedule_i0' = s.schedule_i0
        /\ update_LP_RP' = s.update_LP_RP
        /\ k' = 1
        /\ update_data' = None
        /\ pc' = IF Len(Zip(s.schedule_i0, s.update_LP_RP)) >= 1
                 THEN "loop" ELSE "sweep_end"
        /\ ncalls' = ncalls + 1
        /\ trace' = <<>>

\* sweep(optimize, meas_E_trunc) called from outside
sweep(opt, meas) ==
    /\ TopLevel
    /\ ncalls < MaxCalls
    /\ op' = "sweep"
    /\ UNCHANGED <<config, bookkeeping, caches, scheds, compress>>
    /\ sweep_begin(opt, meas)
    /\ stack' = <<>> /\ ret' = None /\ err' = "" /\ warned' = {}

\* ---- one pass of the for loop of sweep(), lines 199-215.  The pass works on
\* ---- st = [env, ortho_to_envs, trunc_err_list, E_trunc_list, trace].

\* get_theta_ortho(i0): every overlap environment supplies its left part at
\* i0 and its right part at i0 + length - 1, storing what it has to compute
get_theta_ortho(envs, i) ==
    [j \in DOMAIN envs |-> get_RP(get_LP(envs[j], i, TRUE), i + length - 1, TRUE)]

\* EffectiveH(env, i0, combine): OneSiteH and TwoSiteH read the left part at
\* i0 and the right part at i0 + length - 1
EffectiveH_init(e, i) == get_RP(get_LP(e, i, TRUE), i + length - 1, TRUE)

\* ---- the contractions of the effective Hamiltonians.  A contraction is
\* ---- the set of leg pairs it sums over; a leg is <<tensor, label>>.
Pair(a, la, b, lb) == {<<a, la>>, <<b, lb>>}

\* combine_Heff of OneSiteH (lines 473-491) and of TwoSiteH (571-586): the
\* exception it raises, and the leg pairs contracted inside LHeff and RHeff.
\* Line 485 of OneSiteH reads the names RP and H2, which are bound nowhere.
combine_Heff(len) ==
    IF len = 1
    THEN [raised |-> "NameError",
          LHeff |-> {Pair("LP", "wR", "W", "wL")},
          RHeff |-> {}]
    ELSE [raised |-> "",
          LHeff |-> {Pair("LP", "wR", "W1", "wL")},
          RHeff |-> {Pair("RP", "wL", "W2", "wR")}]

\* OneSiteH.matvec, lines 444-471, on theta with the legs vL, p, vR: the leg
\* pairs contracted and the legs of the result.  The fused path leaves the
\* pipe (vL.p) in the result, which itranspose(labels) cannot order by the
\* labels vL, p, vR of the argument.
OneSiteH_matvec(comb) ==
    IF comb
    THEN [raised |-> "ValueError",
          pairs |-> combine_Heff(1).LHeff
                    \cup {Pair("LP", "vR", "theta", "vL"), Pair("W", "p*", "theta", "p")}
                    \cup {Pair("W", "wR", "RP", "wL"), Pair("theta", "vR", "RP", "vL")},
          legs |-> {{"vL", "p"}, {"vR"}}]
    ELSE [raised |-> "",
          pairs |-> {Pair("LP", "vR", "theta", "vL")}
                    \cup {Pair("W", "wL", "LP", "wR"), Pair("W", "p*", "theta", "p")}
                    \cup {Pair("W", "wR", "RP", "wL"), Pair("theta", "vR", "RP", "vL")},
          legs |-> {{"vL"}, {"p"}, {"vR"}}]

\* TwoSiteH.matvec, lines 542-569: theta has the legs vL, p0, p1, vR, or the
\* pipes (vL.p0), (p1.vR) when combine is set
TwoSiteH_matvec(comb) ==
    IF comb
    THEN [raised |-> "",
          pairs |-> combine_Heff(2).LHeff \cup combine_Heff(2).RHeff
                    \cup {Pair("LP", "vR", "theta", "vL"), Pair("W1", "p0*", "theta", "p0")}
                    \cup {Pair("W1", "wR", "W2", "wL"), Pair("theta", "p1", "W2", "p1*"),
                          Pair("theta", "vR", "RP", "vL")},
          legs |-> {{"vL", "p0"}, {"p1", "vR"}}]
    ELSE [raised |-> "",
          pairs |-> {Pair("LP", "vR", "theta", "vL")}
                    \cup {Pair("W1", "wL", "LP", "wR"), Pair("W1", "p0*", "theta", "p0")}
                    \cup {Pair("W1", "wR", "W2", "wL"), Pair("theta", "p1", "W2", "p1*")}
                    \cup {Pair("W2", "wR", "RP", "wL"), Pair("theta", "vR", "RP", "vL")},
          legs |-> {{"vL"}, {"p0"}, {"p1"}, {"vR"}}]

\* H = EffectiveH(env, i0, combine); H.matvec(theta): the exception raised,
\* the leg pairs contracted, and the legs of the result with the pipes split
EffectiveH_matvec(len, comb) ==
    LET built == IF comb THEN combine_Heff(len).raised ELSE ""
        mv == IF len = 1 THEN OneSiteH_matvec(comb) ELSE TwoSiteH_matvec(comb)
    IN  IF built # ""
        THEN [raised |-> built, pairs |-> {}, legs |-> {}]
        ELSE [raised |-> mv.raised, pairs |-> mv.pairs,
              legs |-> {{l} : l \in UNION mv.legs}]

\* building OneSiteH with combine raises the NameError of combine_Heff
EffectiveH_raises == combine /\ combine_Heff(length).raised # ""

\* the hooks of Sweep itself running like a subclass's (a mutant)
step_raises_Never == ""

\* the exception a pass of the loop ends with, "" when it runs through.
\* Sweep's own prepare_update raises NotImplementedError, so its update_local
\* and post_update_local are never reached.
step_raises ==
    IF strategy = "abstract" THEN "NotImplementedError"
    ELSE IF EffectiveH_raises THEN "NameError"
    ELSE ""

\* prepare_update(i0) of a subclass: builds the effective Hamiltonian at i0
\* and the wavefunctions to orthogonalize against
prepare_update(st, i) ==
    [st EXCEPT !.env = EffectiveH_init(st.env, i),
               !.ortho_to_envs = get_theta_ortho(st.ortho_to_envs, i),
               !.trace = Append(st.trace, <<"prepare_update", i>>)]

\* update_local(i0, theta, theta_ortho, update_LP, update_RP, optimize) of a
\* subclass: it returns update_data (U, VH, the truncation error and the
\* energy shift of the step), which the caller draws
update_local(st, i) ==
    [st EXCEPT !.trace = Append(st.trace, <<"update_local", i>>)]

\* update_LP(i0, U): the left part at i0 + 1; with combine it is contracted
\* from LHeff and stored with the age of the left part at i0 plus one
update_LP(e, i) ==
    IF combine
    THEN set_LP(e, i + 1, Get(get_LP_age(e, i)) + 1)
    ELSE get_LP(e, i + 1, TRUE)

\* update_RP(i0, VH)
update_RP(e, i) ==
    IF combine
    THEN set_RP(e, i + length - 1, Get(get_RP_age(e, i + length - 1)) + 1)
    ELSE get_RP(e, i + length - 1, TRUE)

\* sweep(), lines 207-210, with the update_LP flag ignored (a mutant)
sweep_update_LP_Always(st, i, flag) ==
    [st EXCEPT !.env = update_LP(st.env, i),
               !.ortho_to_envs = [j \in DOMAIN st.ortho_to_envs |->
                                     get_LP(st.ortho_to_envs[j], i + 1, TRUE)],
               !.trace = Append(st.trace, <<"update_LP", i>>)]

\* sweep(), lines 207-210
sweep_update_LP(st, i, flag) ==
    IF flag
    THEN [st EXCEPT !.env = update_LP(st.env, i),
                    !.ortho_to_envs = [j \in DOMAIN st.ortho_to_envs |->
                                          get_LP(st.ortho_to_envs[j], i + 1, TRUE)],
                    !.trace = Append(st.trace, <<"update_LP", i>>)]
    ELSE st

\* sweep(), lines 211-214
sweep_update_RP(st, i, flag) ==
    IF flag
    THEN [st EXCEPT !.env = update_RP(st.env, i),
                    !.ortho_to_envs = [j \in DOMAIN st.ortho_to_envs |->
                                          get_RP(st.ortho_to_envs[j], i, TRUE)],
                    !.trace = Append(st.trace, <<"update_RP", i>>)]
    ELSE st

\* post_update_local(i0, update_data, meas_E_trunc, upd_env) of a subclass:
\* it records the truncation error of the step and, when asked to measure
\* it, the energy shift
post_update_local(st, i, ud, meas) ==
    [st EXCEPT !.trunc_err_list = Append(st.trunc_err_list, ud.err),
               !.E_trunc_list = IF meas THEN Append(st.E_trunc_list, ud.E_trunc)
                                ELSE st.E_trunc_list,
               !.trace = Append(st.trace, <<"post_update_local", i, ud>>)]

\* the body of the for loop, lines 200-215, on step <<i, flags>>
loop_body(st, i, flags, ud, meas) ==
    post_update_local(
        sweep_update_RP(
            sweep_update_LP(update_local(prepare_update(st, i), i), i, flags[1]),
            i, flags[2]),
        i, ud, meas)

\* ---- which cached parts of self.env are out of date.  update_local
\* ---- replaces the tensors of the sites i0 .. i0 + length - 1; the left part
\* ---- of bond j is the contraction of the sites below j, the right part of
\* ---- bond j that of the sites above j.
\* what get_LP(j) / get_RP(j) gives is out of date: the cached part is, or the
\* nearest cached part it is extended from
LPStale(e, sl, j) == (j - LeftGap(e, j)) \in sl.LP
RPStale(e, sl, j) == (j + RightGap(e, j)) \in sl.RP

\* EffectiveH(env, i0, combine), lines 436-438 and 533-535: parts extended
\* from a part that is out of date are out of date
stale_get(e, sl, j) ==
    [LP |-> IF LPStale(e, sl, j) THEN sl.LP \cup ((j - LeftGap(e, j))..j) ELSE sl.LP,
     RP |-> IF RPStale(e, sl, j + length - 1)
            THEN sl.RP \cup ((j + length - 1)..(j + length - 1 + RightGap(e, j + length - 1)))
            ELSE sl.RP]

\* update_local, line 204: the cached parts that contain a replaced tensor
stale_update_local(e, sl, j) ==
    [LP |-> sl.LP \cup {c \in DOMAIN e.LP : HasLP(e, c) /\ c > j},
     RP |-> sl.RP \cup {c \in DOMAIN e.RP : HasRP(e, c) /\ c < j + length - 1}]

\* update_LP, lines 326-331: with combine the part of bond i0 + 1 is
\* contracted from LHeff and U and stored; without, get_LP computes it from
\* the part of bond i0 only when none is cached
stale_update_LP(e, sl, j, flag) ==
    IF ~flag \/ (~combine /\ HasLP(e, j + 1)) THEN sl
    ELSE [sl EXCEPT !.LP = IF j \in sl.LP THEN @ \cup {j + 1} ELSE @ \ {j + 1}]

\* update_RP, lines 346-351: with combine the part contracted from VH and
\* RHeff contains the tensor of site i0 + length - 1 and is stored at that
\* very index; without, get_RP returns the cached part of that index
stale_update_RP(e, sl, j, flag) ==
    IF flag /\ combine THEN [sl EXCEPT !.RP = @ \cup {j + length - 1}] ELSE sl

\* one pass of the for loop, lines 203-214
stale_step(e, sl, j, flags) ==
    stale_update_RP(EffectiveH_init(e, j),
        stale_update_LP(EffectiveH_init(e, j),
            stale_update_local(EffectiveH_init(e, j), stale_get(e, sl, j), j),
            j, flags[1]),
        j, flags[2])

\* sweep(), lines 199-215: one pass of the for loop
sweep_step ==
    /\ pc = "loop"
    /\ IF step_raises # ""
       THEN /\ Raise(op, step_raises)
            /\ UNCHANGED <<caches, lists, trace>>
       ELSE \E e \in TruncErrs :
               /\ e # 0 => k <= MaxTruncating
               /\ \E st \in {loop_body([env |-> env, ortho_to_envs |-> ortho_to_envs,
                                        trunc_err_list |-> trunc_err_list,
                                        E_trunc_list |-> E_trunc_list, trace |-> trace],
                                       i0, upd_env, [err |-> e, E_trunc |-> 0 - e],
                                       meas_E_trunc)} :
                      /\ env' = st.env
                      /\ stale' = IF finite THEN stale_step(env, stale, i0, upd_env)
                                   ELSE stale
                      /\ ortho_to_envs' = st.ortho_to_envs
                      /\ trunc_err_list' = st.trunc_err_list
                      /\ E_trunc_list' = st.E_trunc_list
                      /\ trace' = st.trace
               /\ update_data' = Some([err |-> e, E_trunc |-> 0 - e])
               /\ k' = k + 1
               /\ pc' = IF k + 1 <= Len(Steps) THEN "loop" ELSE "sweep_end"
               /\ UNCHANGED <<optimize, meas_E_trunc, schedule_i0, update_LP_RP,
                              stack, ret, err>>
    /\ UNCHANGED <<config, bookkeeping, op, warned, ncalls, scheds, compress>>

\* sweep(), lines 217-227, with the mixer updated from the counter as it was
\* before the increment (a mutant)
sweep_bookkeeping_OldCounter(opt, n) ==
    /\ sweeps' = n
    /\ chi_max' = IF opt /\ chi_list # None /\ n \in Keys(Get(chi_list))
                  THEN Some(Get(chi_list)[n]) ELSE chi_max
    /\ mixer' = IF opt /\ mixer # None THEN update_amplitude(Get(mixer), sweeps) ELSE mixer

\* sweep(), lines 217-227, counting every sweep as an optimization sweep (a
\* mutant)
sweep_bookkeeping_Always(opt, n) ==
    /\ sweeps' = sweeps + 1
    /\ chi_max' = IF chi_list # None /\ (sweeps + 1) \in Keys(Get(chi_list))
                  THEN Some(Get(chi_list)[sweeps + 1]) ELSE chi_max
    /\ mixer' = IF mixer # None THEN update_amplitude(Get(mixer), sweeps + 1) ELSE mixer

\* sweep(), lines 217-227, leaving chi_max as reset_stats set it (a mutant)
sweep_bookkeeping_NoChi(opt, n) ==
    /\ sweeps' = n
    /\ chi_max' = chi_max
    /\ mixer' = IF opt /\ mixer # None THEN update_amplitude(Get(mixer), n) ELSE mixer

\* sweep(), lines 217-227: the counter, chi_max and the mixer after the loop
sweep_bookkeeping(opt, n) ==
    /\ sweeps' = n
    /\ chi_max' = IF opt /\ chi_list # None /\ n \in Keys(Get(chi_list))
                  THEN Some(Get(chi_list)[n]) ELSE chi_max
    /\ mixer' = IF opt /\ mixer # None THEN update_amplitude(Get(mixer), n) ELSE mixer

\* sweep(), lines 217-231: the bookkeeping of an optimizing sweep, then the
\* return value; np.max raises ValueError on an empty list
sweep_end ==
    /\ pc = "sweep_end"
    /\ sweep_bookkeeping(optimize, IF optimize THEN sweeps + 1 ELSE sweeps)
    /\ IF trunc_err_list = <<>> \/ (meas_E_trunc /\ E_trunc_list = <<>>)
       THEN Raise(op, "ValueError(np.max of an empty list)")
       ELSE Return(stack, Some(<<NpMax(trunc_err_list),
                                 IF meas_E_trunc THEN Some(NpMax(E_trunc_list)) ELSE None>>))
    /\ UNCHANGED <<config, chi_list, caches, lists, op, warned, ncalls, trace, scheds, compress>>

\* ------------------------------------------------------------------- mixer
\* mixer_activate(): not implemented by Sweep; a subclass installs the mixer
\* its parameters describe
mixer_activate ==
    /\ TopLevel
    /\ op' = "mixer_activate"
    /\ warned' = {}
    /\ IF strategy = "abstract"
       THEN /\ Raise("mixer_activate", "NotImplementedError")
            /\ UNCHANGED mixer
       ELSE /\ \E m \in Mixers : mixer' = Some(m)
            /\ Return(<<>>, None)
    /\ UNCHANGED <<config, sweeps, chi_list, chi_max, caches, lists, ncalls, trace, scheds, compress>>

\* mixer_cleanup(), line 291, putting nothing back (a mutant)
mixer_cleanup_restore_Skip ==
    /\ pc = "returned"
    /\ stack # <<>>
    /\ stack[Len(stack)].fn = "mixer_cleanup"
    /\ Return(SubSeq(stack, 1, Len(stack) - 1), None)
    /\ UNCHANGED <<config, bookkeeping, caches, lists, op, warned, ncalls, trace, scheds, compress>>

\* mixer_cleanup(), lines 287-290: with a mixer, it is saved and disabled and
\* one sweep without optimization starts; without one nothing happens
mixer_cleanup ==
    /\ TopLevel
    /\ mixer # None => ncalls < MaxCalls
    /\ op' = "mixer_cleanup"
    /\ warned' = {}
    /\ UNCHANGED <<config, sweeps, chi_list, chi_max, caches, scheds, compress>>
    /\ IF mixer # None
       THEN /\ mixer' = None
            /\ sweep_begin(FALSE, FALSE)
            /\ stack' = <<Frame("mixer_cleanup", 0, mixer)>>
            /\ ret' = None /\ err' = ""
       ELSE /\ Return(<<>>, None)
            /\ UNCHANGED <<mixer, lists, ncalls, trace>>

\* mixer_cleanup(), line 291: the sweep has returned, the saved mixer is put back
mixer_cleanup_restore ==
    /\ pc = "returned"
    /\ stack # <<>>
    /\ stack[Len(stack)].fn = "mixer_cleanup"
    /\ mixer' = stack[Len(stack)].mixer
    /\ Return(SubSeq(stack, 1, Len(stack) - 1), None)
    /\ UNCHANGED <<config, sweeps, chi_list, chi_max, caches, lists, op, warned,
                   ncalls, trace, scheds, compress>>

\* ------------------------------------------------------ environment_sweeps
\* environment_sweeps(N_sweeps), first pass of its loop; the caller has fixed
\* the primed environment, and stk are the frames below
environment_sweeps_begin(N, stk) ==
    IF N <= 0
    THEN /\ Return(stk, None)
         /\ UNCHANGED <<lists, ncalls, trace>>
    ELSE /\ sweep_begin(FALSE, FALSE)
         /\ stack' = Append(stk, Frame("environment_sweeps", N - 1, None))
         /\ ret' = None /\ err' = ""

\* environment_sweeps(N_sweeps) called from outside
environment_sweeps(N) ==
    /\ TopLevel
    /\ ncalls + N <= MaxCalls
    /\ op' = "environment_sweeps"
    /\ warned' = {}
    /\ UNCHANGED <<config, bookkeeping, caches, scheds, compress>>
    /\ environment_sweeps_begin(N, <<>>)

\* environment_sweeps(), lines 159-164: a sweep of the loop has returned; the
\* next one starts, or the loop is over
environment_sweeps_next ==
    /\ pc = "returned"
    /\ stack # <<>>
    /\ stack[Len(stack)].fn = "environment_sweeps"
    /\ UNCHANGED <<config, bookkeeping, caches, op, warned, scheds, compress>>
    /\ environment_sweeps_begin(stack[Len(stack)].remaining, SubSeq(stack, 1, Len(stack) - 1))

\* ------------------------------------------------- reset_stats and init_env
\* reset_stats(), line 147: the largest key of chi_list that is <= sweep_0
chi_key(d, s0) == CHOOSE key \in Keys(d) : key <= s0 /\ \A c \in Keys(d) : c <= s0 => c <= key

\* reset_stats() runs through: max() of line 147 has something to choose from
reset_stats_ok ==
    engine_params.chi_list # None =>
        \E key \in Keys(Get(engine_params.chi_list)) : key <= engine_params.sweep_0

\* reset_stats(): the sweep counter restarts at sweep_0 and chi_max is set
\* from chi_list, when there is one
reset_stats ==
    /\ sweeps' = engine_params.sweep_0
    /\ chi_list' = engine_params.chi_list
    /\ chi_max' = IF engine_params.chi_list # None /\ reset_stats_ok
                  THEN Some(Get(engine_params.chi_list)[
                                chi_key(Get(engine_params.chi_list), engine_params.sweep_0)])
                  ELSE chi_max

\* init_env(), lines 121-126, building overlap environments on an infinite
\* chain too (a mutant)
init_ortho_to_envs_Unchecked(n) ==
    IF n > 0
    THEN Some([j \in 1..n |-> NewEnvironment(env.L, env.finite, "", j, 0, 0)])
    ELSE Some(ortho_to_envs)

\* init_env(), lines 121-126: the overlap environments for n targets, or
\* None for the ValueError raised on an infinite chain
init_ortho_to_envs(n) ==
    IF n > 0
    THEN IF ~finite
         THEN None
         ELSE Some([j \in 1..n |-> NewEnvironment(env.L, env.finite, "", j, 0, 0)])
    ELSE Some(ortho_to_envs)

\* init_env(model), called by __init__ and from outside
\* lines 93, 98, 107: the boundary parts and their ages are taken over from
\* the old environment on an infinite chain whose operator leg is compatible
reuse_caches_Never(fin, compatible) == FALSE

reuse_caches(fin, compatible) == ~fin /\ compatible

init_env(model) ==
    /\ IF pc = "init_env" THEN model = Some("H") ELSE TopLevel
    /\ finite \/ ncalls + engine_params.start_env <= MaxCalls
    /\ op' = IF pc = "init_env" THEN "__init__" ELSE "init_env"
    /\ UNCHANGED <<config, mixer, scheds, compress>>
    /\ LET H == IF model # None THEN Get(model) ELSE env.H
           compatible == model = None \/ wL_leg(H) = wL_leg(env.H)
           reuse == reuse_caches(finite, compatible)
           LP_age == IF reuse THEN Get(get_LP_age(env, 0)) ELSE engine_params.LP_age
           RP_age == IF reuse THEN Get(get_RP_age(env, env.L - 1)) ELSE engine_params.RP_age
           o_envs == init_ortho_to_envs(engine_params.orthogonal_to)
           told == (IF ~finite /\ ~compatible THEN {"incompatible leg"} ELSE {})
                   \cup (IF ~finite /\ engine_params.chi_list # None
                         THEN {"chi_list"} ELSE {})
       IN  /\ env' = NewEnvironment(env.L, env.finite, H, 0, LP_age, RP_age)
           /\ stale' = NoStale
           /\ IF o_envs = None
              THEN /\ Raise(op', "ValueError(orthogonal_to)")
                   /\ warned' = told
                   /\ UNCHANGED <<sweeps, chi_list, chi_max, ortho_to_envs, lists,
                                  ncalls, trace>>
              ELSE /\ ortho_to_envs' = Get(o_envs)
                   /\ reset_stats
                   /\ warned' = told \cup {"reset_stats"}
                   /\ IF ~reset_stats_ok
                      THEN /\ Raise(op', "ValueError(max of an empty list)")
                           /\ UNCHANGED <<lists, ncalls, trace>>
                      ELSE IF ~finite
                           THEN environment_sweeps_begin(engine_params.start_env, <<>>)
                           ELSE /\ Return(<<>>, None)
                                /\ UNCHANGED <<lists, ncalls, trace>>

\* ------------------------------------------------------------ specification
Next ==
    \/ Sweep_init
    \/ \E model \in {None} \cup {Some(H) : H \in Models} : init_env(model)
    \/ \E opt \in BOOLEAN, meas \in BOOLEAN : sweep(opt, meas)
    \/ sweep_step
    \/ sweep_end
    \/ \E N \in StartEnvs : environment_sweeps(N)
    \/ environment_sweeps_next
    \/ mixer_activate
    \/ mixer_cleanup
    \/ mixer_cleanup_restore

Spec == Init /\ [][Next]_vars

\* --------------------------------------- get_sweep_schedule called on its own
\* what a call of get_sweep_schedule gives: the two lists, or the failed assert
schedule_call(L, fin) ==
    IF schedule_assert_ok(L, fin)
    THEN [raised |-> FALSE,
          schedule_i0 |-> get_sweep_schedule(L, fin).schedule_i0,
          update_LP_RP |-> get_sweep_schedule(L, fin).update_LP_RP]
    ELSE [raised |-> TRUE, schedule_i0 |-> <<>>, update_LP_RP |-> <<>>]

InitSchedule ==
    \E L \in 1..MaxSchedL, fin \in BOOLEAN :
        /\ EngineInit(L, fin, 2, FALSE, "abstract",
                      [chi_list |-> None, sweep_0 |-> 0, start_env |-> 0,
                       orthogonal_to |-> 0, LP_age |-> 0, RP_age |-> 0])
        /\ NoCompress
        /\ env_bound = TRUE
        /\ pc = "schedule"

get_schedule_first ==
    /\ pc = "schedule"
    /\ sched = None
    /\ sched' = Some(schedule_call(env.L, env.finite))
    /\ UNCHANGED <<config, bookkeeping, caches, lists, locals, pc, op, stack, ret, err,
                   warned, ncalls, trace, sched2, compress>>

get_schedule_again ==
    /\ pc = "schedule"
    /\ sched # None
    /\ sched2 = None
    /\ sched2' = Some(schedule_call(env.L, env.finite))
    /\ UNCHANGED <<config, bookkeeping, caches, lists, locals, pc, op, stack, ret, err,
                   warned, ncalls, trace, sched, compress>>

NextSchedule == get_schedule_first \/ get_schedule_again

SpecSchedule == InitSchedule /\ [][NextSchedule]_vars

\* ========================================= mps_compress and apply_mpo
\* ---- a tensor is modelled by the dimensions of its legs
Min(a, b) == IF a <= b THEN a ELSE b

\* a site tensor with legs vL, p, vR, and the form it is stored with
Site(vL, vR, form) == [vL |-> vL, p |-> PhysDim, vR |-> vR, form |-> form]

\* an MPS of L sites whose bond j has dimension d[j]: the site tensors
\* B[0..L-1] and the lengths S[0..L] of the singular value vectors
NewMPS(bc, L, d) ==
    [bc |-> bc, L |-> L,
     B |-> [j \in 0..(L - 1) |-> Site(d[j], d[j + 1], "B")],
     S |-> [j \in 0..L |-> d[j]]]

\* an MPO of L sites whose auxiliary legs wL, wR all have dimension D
NewMPO(bc, L, D) == [bc |-> bc, L |-> L, D |-> D]

\* the states handed in: the outer bonds have dimension 1
InputBonds(L) == {d \in [0..L -> 1..MaxChi] : d[0] = 1 /\ d[L] = 1}

InputStates ==
    UNION {{NewMPS(bc, L, d) : bc \in {"finite", "infinite"}, d \in InputBonds(L)} :
           L \in 1..MaxCompressL}

\* the operators handed in with the state p
InputOperators(p) ==
    {NewMPO(bc, L, D) : bc \in {"finite", "infinite"}, L \in {p.L, p.L + 1},
                        D \in 1..MaxD}

\* ---- psi.get_B(i, form=None), psi.set_B(i, B, form), psi.set_SL(i, s)
get_B(p, i) == [vL |-> p.B[i].vL, p |-> p.B[i].p, vR |-> p.B[i].vR]

set_B(p, i, t, form) ==
    [p EXCEPT !.B[i] = [vL |-> t.vL, p |-> t.p, vR |-> t.vR, form |-> form]]

set_SL(p, i, len) == [p EXCEPT !.S[i] = len]

\* the MPS mps_compress works on: the caller's psi, or apply_mpo's new_mps
obj == IF called = "apply_mpo" THEN "new_mps" ELSE "psi"

Target == IF called = "apply_mpo" THEN Get(new_mps) ELSE Get(psi)

\* truncate(s, trunc_par): the number of singular values kept out of n, and
\* the weight of the discarded ones
truncate(n, cap) ==
    {[kept |-> m, err |-> e] : m \in 1..Min(n, cap), e \in {0, 1}} \
    {[kept |-> n, err |-> 1]}

\* ---- mps_compress, lines 22-26: the check of bc and the first read
mps_compress_begin(p, o) ==
    IF p.bc # "finite"
    THEN /\ cpc' = "raised"
         /\ result' = <<"raised", "TypeError">>
         /\ UNCHANGED <<B, site, accesses>>
    ELSE /\ B' = Some(get_B(p, 0))
         /\ accesses' = Append(accesses, <<"get_B", o, 0>>)
         /\ site' = 0
         /\ cpc' = IF p.L - 1 >= 1 THEN "qr" ELSE "final"
         /\ UNCHANGED result

mps_compress_call ==
    /\ UNCHANGED engine
    /\ pc = "compress" /\ cpc = "call" /\ called = "mps_compress"
    /\ mps_compress_begin(Get(psi), "psi")
    /\ UNCHANGED <<psi, mpo, trunc_par, Bs, new_mps, called, truncated>>

\* the state after the target MPS became p
StoreTarget(p) ==
    IF called = "apply_mpo"
    THEN new_mps' = Some(p) /\ UNCHANGED psi
    ELSE psi' = Some(p) /\ UNCHANGED new_mps

\* ---- one pass of the first loop, lines 27-33
qr_inner(b) == Min(b.vL * b.p, b.vR)

qr_q(b) == [vL |-> b.vL, p |-> b.p, vR |-> qr_inner(b)]

qr_accesses(i) == << <<"set_B", obj, i, "None">>, <<"get_B", obj, i + 1>> >>

qr_step ==
    /\ UNCHANGED engine
    /\ pc = "compress" /\ cpc = "qr"
    /\ \E b \in {Get(B)}, nxt \in {get_B(Target, site + 1)} :
         /\ StoreTarget(set_B(Target, site, qr_q(b), "None"))
         /\ accesses' = accesses \o qr_accesses(site)
         /\ IF b.vR # nxt.vL
            THEN /\ cpc' = "raised"
                 /\ result' = <<"raised", "ValueError">>
                 /\ UNCHANGED <<B, site>>
            ELSE /\ B' = Some([vL |-> qr_inner(b), p |-> nxt.p, vR |-> nxt.vR])
                 /\ site' = site + 1
                 /\ cpc' = IF site + 1 <= Target.L - 2 THEN "qr" ELSE "svd"
                 /\ UNCHANGED result
    /\ UNCHANGED <<mpo, trunc_par, Bs, called, truncated>>

\* ---- one pass of the second loop, lines 35-47
svd_inner(b) == Min(b.vL, b.p * b.vR)

svd_vh_Unprojected(b, m) == [vL |-> svd_inner(b), p |-> b.p, vR |-> b.vR]

svd_vh(b, m) == [vL |-> m, p |-> b.p, vR |-> b.vR]

absorb_u_Unprojected(prev, b, m) == [vL |-> prev.vL, p |-> prev.p, vR |-> svd_inner(b)]

absorb_u(prev, b, m) == [vL |-> prev.vL, p |-> prev.p, vR |-> m]

svd_accesses_WeightsFirst(i) ==
    << <<"set_SL", obj, i>>, <<"set_B", obj, i, "B">>, <<"get_B", obj, i - 1>> >>

svd_accesses(i) ==
    << <<"set_B", obj, i, "B">>, <<"get_B", obj, i - 1>>, <<"set_SL", obj, i>> >>

svd_step ==
    /\ UNCHANGED engine
    /\ pc = "compress" /\ cpc = "svd"
    /\ \E b \in {Get(B)}, prev \in {get_B(Target, site - 1)} :
       \E t \in truncate(svd_inner(b), Get(trunc_par)) :
         /\ truncated' = Append(truncated, [bond |-> site, of |-> svd_inner(b),
                                            kept |-> t.kept, err |-> t.err])
         /\ IF prev.vR # b.vL
            THEN /\ StoreTarget(set_B(Target, site, svd_vh(b, t.kept), "B"))
                 /\ accesses' = accesses \o SubSeq(svd_accesses(site), 1, 2)
                 /\ cpc' = "raised"
                 /\ result' = <<"raised", "ValueError">>
                 /\ UNCHANGED <<B, site>>
            ELSE /\ StoreTarget(set_SL(set_B(Target, site, svd_vh(b, t.kept), "B"),
                                       site, t.kept))
                 /\ accesses' = accesses \o svd_accesses(site)
                 /\ B' = Some(absorb_u(prev, b, t.kept))
                 /\ site' = site - 1
                 /\ cpc' = IF site - 1 >= 1 THEN "svd" ELSE "final"
                 /\ UNCHANGED result
    /\ UNCHANGED <<mpo, trunc_par, Bs, called>>

\* ---- line 48 and the return of mps_compress
mps_compress_final ==
    /\ UNCHANGED engine
    /\ pc = "compress" /\ cpc = "final"
    /\ StoreTarget(set_B(Target, 0, Get(B), "B"))
    /\ accesses' = Append(accesses, <<"set_B", obj, 0, "B">>)
    /\ IF called = "apply_mpo"
       THEN cpc' = "compressed" /\ UNCHANGED result
       ELSE cpc' = "done" /\ result' = <<"returned", "None">>
    /\ UNCHANGED <<mpo, trunc_par, Bs, B, site, called, truncated>>

\* ---- apply_mpo, lines 68-71: the checks on the arguments
apply_mpo_check_NoLength(p, w) ==
    IF p.bc # "finite" \/ w.bc # "finite" THEN "ValueError" ELSE ""

apply_mpo_check(p, w) ==
    IF p.bc # "finite" \/ w.bc # "finite" THEN "ValueError"
    ELSE IF p.L # w.L THEN "ValueError"
    ELSE ""

\* ---- lines 72-88: site i of psi contracted with W[i], the auxiliary legs
\* ---- removed by a slice or fused into the virtual legs
fuse(p, w, i) ==
    IF i = 0
    THEN [vL |-> p.B[i].vL, p |-> p.B[i].p, vR |-> w.D * p.B[i].vR]
    ELSE IF i = p.L - 1
    THEN [vL |-> w.D * p.B[i].vL, p |-> p.B[i].p, vR |-> p.B[i].vR]
    ELSE [vL |-> w.D * p.B[i].vL, p |-> p.B[i].p, vR |-> w.D * p.B[i].vR]

apply_mpo_call ==
    /\ UNCHANGED engine
    /\ pc = "compress" /\ cpc = "call" /\ called = "apply_mpo"
    /\ IF apply_mpo_check(Get(psi), Get(mpo)) # ""
       THEN /\ cpc' = "raised"
            /\ result' = <<"raised", apply_mpo_check(Get(psi), Get(mpo))>>
            /\ UNCHANGED <<Bs, accesses>>
       ELSE /\ Bs' = Some([j \in 0..(Get(psi).L - 1) |-> fuse(Get(psi), Get(mpo), j)])
            /\ accesses' = accesses \o [j \in 1..Get(psi).L |-> <<"get_B", "psi", j - 1>>]
            /\ cpc' = "fused"
            /\ UNCHANGED result
    /\ UNCHANGED <<psi, mpo, trunc_par, new_mps, B, site, called, truncated>>

\* ---- lines 91-95: the singular values of the product state and the new MPS
product_S(bs, L) ==
    [j \in 0..L |-> IF j = 0 \/ j = L THEN 1 ELSE bs[j - 1].vR]

product_MPS(bs, L) ==
    [bc |-> "finite", L |-> L,
     B |-> [j \in 0..(L - 1) |->
              [vL |-> bs[j].vL, p |-> bs[j].p, vR |-> bs[j].vR, form |-> "None"]],
     S |-> product_S(bs, L)]

\* the MPS constructor may check the singular values against the legs of
\* the tensors next to them
MPS_consistent(p) ==
    /\ p.S[0] = p.B[0].vL
    /\ p.S[p.L] = p.B[p.L - 1].vR

\* ---- lines 95-96: MPS(...) and the call of mps_compress on it
apply_mpo_compress ==
    /\ UNCHANGED engine
    /\ pc = "compress" /\ cpc = "fused"
    /\ \E p \in {product_MPS(Get(Bs), Get(psi).L)} :
         \/ /\ new_mps' = Some(p)
            /\ mps_compress_begin(p, "new_mps")
         \/ /\ ~MPS_consistent(p)
            /\ cpc' = "raised"
            /\ result' = <<"raised", "ValueError">>
            /\ UNCHANGED <<new_mps, B, site, accesses>>
    /\ UNCHANGED <<psi, mpo, trunc_par, Bs, called, truncated>>

\* ---- line 97
apply_mpo_return ==
    /\ UNCHANGED engine
    /\ pc = "compress" /\ cpc = "compressed"
    /\ cpc' = "done"
    /\ result' = <<"returned", "new_mps">>
    /\ UNCHANGED <<psi, mpo, trunc_par, Bs, new_mps, B, site, called, accesses,
                   truncated>>

\* ---- a call of mps_compress(psi, trunc_par) or apply_mpo(psi, mpo, trunc_par)
InitCompress ==
    /\ EngineInit(2, TRUE, 2, FALSE, "abstract",
                  [chi_list |-> None, sweep_0 |-> 0, start_env |-> 0,
                   orthogonal_to |-> 0, LP_age |-> 0, RP_age |-> 0])
    /\ env_bound = TRUE
    /\ pc = "compress" /\ cpc = "call"
    /\ called \in {"mps_compress", "apply_mpo"}
    /\ \E p \in InputStates :
         /\ psi = Some(p)
         /\ IF called = "apply_mpo"
            THEN \E w \in InputOperators(p) : mpo = Some(w)
            ELSE mpo = None
    /\ \E cap \in 1..MaxCap : trunc_par = Some(cap)
    /\ Bs = None /\ new_mps = None /\ B = None /\ site = 0 /\ result = None
    /\ accesses = <<>> /\ truncated = <<>>

NextCompress ==
    \/ mps_compress_call
    \/ qr_step
    \/ svd_step
    \/ mps_compress_final
    \/ apply_mpo_call
    \/ apply_mpo_compress
    \/ apply_mpo_return

SpecCompress == InitCompress /\ [][NextCompress]_vars

\* ===================================================== the sweep schedule
\* how often x occurs in the list s
Count(s, x) == Cardinality({j \in 1..Len(s) : s[j] = x})

\* a schedule has been computed for a finite chain of the lengths the
\* specification covers
FiniteScheduled == sched # None /\ ~Get(sched).raised /\ env.finite /\ env.L >= 3

\* the same for an infinite chain
InfiniteScheduled == sched # None /\ ~Get(sched).raised /\ ~env.finite /\ env.L >= 2

\* C1 as stated: on a finite chain of length L >= 3 the schedule has
\* 2(L-2) positions, visits each of the positions 1..L-2 exactly twice and
\* never visits position 0 or position L-1.
C1_AsStated ==
    FiniteScheduled =>
        LET s == Get(sched).schedule_i0
            L == env.L
        IN  /\ Len(s) = 2 * (L - 2)
            /\ \A b \in 1..(L - 2) : Count(s, b) = 2
            /\ Count(s, 0) = 0
            /\ Count(s, L - 1) = 0

\* C1: on a finite chain of length L >= 3 the schedule has 2(L-2)
\* positions; it visits position 0 and position L-2 exactly once each, every
\* position 1..L-3 exactly twice, and never position L-1 or any other value.
C1_ScheduleCounts ==
    FiniteScheduled =>
        LET s == Get(sched).schedule_i0
            L == env.L
        IN  /\ Len(s) = 2 * (L - 2)
            /\ Count(s, 0) = 1
            /\ Count(s, L - 2) = 1
            /\ \A b \in 1..(L - 3) : Count(s, b) = 2
            /\ \A j \in 1..Len(s) : s[j] \in 0..(L - 2)

\* a finite chain long enough to have positions that are visited twice
C1_Witness ==
    /\ FiniteScheduled
    /\ env.L >= 5
    /\ Count(Get(sched).schedule_i0, 2) = 2
    /\ Count(Get(sched).schedule_i0, 0) = 1

\* C2: on a finite chain of length L >= 3 the positions are 0, 1, ..., L-2
\* followed by L-3, L-4, ..., 1; the first L-2 flag pairs are (true, false)
\* and the remaining L-2 are (false, true); the two lists have the same
\* length, and a second call on the same chain gives the same lists.
C2_FiniteSchedule ==
    FiniteScheduled =>
        LET s == Get(sched).schedule_i0
            f == Get(sched).update_LP_RP
            L == env.L
        IN  /\ Len(s) = 2 * (L - 2)
            /\ Len(f) = Len(s)
            /\ \A j \in 1..(L - 1) : s[j] = j - 1
            /\ \A j \in L..(2 * L - 4) : s[j] = 2 * L - 3 - j
            /\ \A j \in 1..(L - 2) : f[j] = <<TRUE, FALSE>>
            /\ \A j \in (L - 1)..(2 * L - 4) : f[j] = <<FALSE, TRUE>>
            /\ sched2 # None => Get(sched2) = Get(sched)

\* both calls made on a finite chain with a way back of several positions
C2_Witness ==
    /\ FiniteScheduled
    /\ sched2 # None
    /\ env.L = 6
    /\ Get(sched2).schedule_i0 = <<0, 1, 2, 3, 4, 3, 2, 1>>

\* C3 as stated: on an infinite chain of length L >= 2 the positions are
\* 0..L-1 followed by L, L-1, ..., 1; the first two and the final two flag
\* pairs are (true, true), every other pair of the forward half is
\* (true, false) and every other pair of the backward half (false, true).
C3_AsStated ==
    InfiniteScheduled =>
        LET s == Get(sched).schedule_i0
            f == Get(sched).update_LP_RP
            L == env.L
        IN  /\ Len(s) = 2 * L
            /\ Len(f) = 2 * L
            /\ \A j \in 1..L : s[j] = j - 1
            /\ \A j \in (L + 1)..(2 * L) : s[j] = 2 * L + 1 - j
            /\ \A j \in 1..(2 * L) :
                  f[j] = IF j \in {1, 2, 2 * L - 1, 2 * L} THEN <<TRUE, TRUE>>
                         ELSE IF j <= L THEN <<TRUE, FALSE>>
                         ELSE <<FALSE, TRUE>>

\* C3: on an infinite chain of length L >= 2 the positions are 0..L-1
\* followed by L, L-1, ..., 1; the first two flag pairs of the forward half
\* and the first two of the backward half are (true, true), every other pair
\* of the forward half is (true, false) and every other pair of the backward
\* half is (false, true).
C3_InfiniteSchedule ==
    InfiniteScheduled =>
        LET s == Get(sched).schedule_i0
            f == Get(sched).update_LP_RP
            L == env.L
        IN  /\ Len(s) = 2 * L
            /\ Len(f) = 2 * L
            /\ \A j \in 1..L : s[j] = j - 1
            /\ \A j \in (L + 1)..(2 * L) : s[j] = 2 * L + 1 - j
            /\ \A j \in 1..(2 * L) :
                  f[j] = IF j \in {1, 2, L + 1, L + 2} THEN <<TRUE, TRUE>>
                         ELSE IF j <= L THEN <<TRUE, FALSE>>
                         ELSE <<FALSE, TRUE>>

\* an infinite chain whose final two flag pairs are not the (true, true) ones
C3_Witness ==
    /\ InfiniteScheduled
    /\ env.L = 4
    /\ Get(sched).update_LP_RP[5] = <<TRUE, TRUE>>
    /\ Get(sched).update_LP_RP[8] = <<FALSE, TRUE>>

\* ========================================================== one sweep call
\* control is inside sweep()
InSweep == pc \in {"loop", "sweep_end"}

\* the steps get_sweep_schedule lays out for the engine's chain
Scheduled ==
    Zip(get_sweep_schedule(env.L, finite).schedule_i0,
        get_sweep_schedule(env.L, finite).update_LP_RP)

\* the calls one step makes, in order: <<name, position>>
StepCalls(step) ==
    <<<<"prepare_update", step[1]>>, <<"update_local", step[1]>>>>
    \o (IF step[2][1] THEN <<<<"update_LP", step[1]>>>> ELSE <<>>)
    \o (IF step[2][2] THEN <<<<"update_RP", step[1]>>>> ELSE <<>>)
    \o <<<<"post_update_local", step[1]>>>>

\* the calls of the first n steps of the list steps
RECURSIVE CallsOf(_, _)
CallsOf(steps, n) ==
    IF n = 0 THEN <<>> ELSE CallsOf(steps, n - 1) \o StepCalls(steps[n])

\* the calls made so far by the running sweep: <<name, position>>
CallsMade == [j \in 1..Len(trace) |-> <<trace[j][1], trace[j][2]>>]

\* C4: a sweep runs the scheduled steps one at a time in schedule order, each
\* step calling prepare_update, update_local, the left-part update iff its
\* update-left flag is set, the right-part update iff its update-right flag
\* is set, and post_update_local, in this order; the counter, chi_max and
\* the mixer are untouched while steps remain, and the end of the sweep is
\* reached only with the calls of every scheduled step made.
C4_StepSequence ==
    [][/\ pc = "loop" =>
            /\ k <= Len(Scheduled)
            /\ CallsMade = CallsOf(Scheduled, k - 1)
            /\ UNCHANGED bookkeeping
            /\ pc' \in {"loop", "sweep_end"} =>
                  /\ k' = k + 1
                  /\ CallsMade' = CallsOf(Scheduled, k)
            /\ pc' = "sweep_end" => k = Len(Scheduled)
       /\ pc = "sweep_end" => CallsMade = CallsOf(Scheduled, Len(Scheduled))
      ]_vars

\* the end of a sweep whose steps had either flag set alone and both together
C4_Witness ==
    /\ pc = "sweep_end"
    /\ Len(Scheduled) = 6
    /\ \E j \in 1..Len(Scheduled) : Scheduled[j][2] = <<TRUE, FALSE>>
    /\ \E j \in 1..Len(Scheduled) : Scheduled[j][2] = <<FALSE, TRUE>>
    /\ CallsMade = CallsOf(Scheduled, 6)

\* C5: a sweep with optimize = true adds exactly one to the sweep counter,
\* after its last step; chi_max then becomes the entry of chi_list under the
\* new counter value when there is a chi_list with that key, and stays as it
\* is otherwise; the mixer, when there is one, then becomes the result of
\* update_amplitude(new counter value).
C5_OptimizeBookkeeping ==
    [][/\ (pc = "loop" /\ optimize) => UNCHANGED bookkeeping
       /\ (pc = "sweep_end" /\ optimize) =>
            /\ k = Len(Scheduled) + 1
            /\ sweeps' = sweeps + 1
            /\ chi_list' = chi_list
            /\ chi_max' = IF chi_list # None /\ (sweeps + 1) \in DOMAIN Get(chi_list)
                          THEN Some(Get(chi_list)[sweeps + 1])
                          ELSE chi_max
            /\ mixer' = IF mixer # None
                        THEN update_amplitude(Get(mixer), sweeps + 1)
                        ELSE None
      ]_vars

\* an optimizing sweep has returned with chi_max taken from chi_list
C5_Witness ==
    /\ pc = "idle" /\ op = "sweep" /\ ret # None
    /\ sweeps = engine_params.sweep_0 + 1
    /\ chi_list # None
    /\ chi_max = Some(Get(chi_list)[sweeps])
    /\ chi_max # Some(Get(chi_list)[engine_params.sweep_0])

\* C6: a sweep with optimize = false leaves the sweep counter, chi_max,
\* chi_list and the mixer as they were; it empties the two per-sweep lists
\* and runs the scheduled steps.
C6_NoOptimizeFrame ==
    [][/\ (TopLevel /\ op' = "sweep" /\ InSweep' /\ ~optimize') =>
            /\ UNCHANGED bookkeeping
            /\ trunc_err_list' = <<>> /\ E_trunc_list' = <<>>
       /\ (InSweep /\ ~optimize) => UNCHANGED bookkeeping
       /\ (pc = "sweep_end" /\ ~optimize) => CallsMade = CallsOf(Scheduled, Len(Scheduled))
      ]_vars

\* the second sweep of an engine with a mixer and a chi_list has returned, and
\* the counter is where reset_stats put it: that sweep did not optimize
C6_Witness ==
    /\ pc = "idle" /\ op = "sweep" /\ ret # None
    /\ ncalls = 2
    /\ mixer # None /\ chi_list # None
    /\ sweeps = engine_params.sweep_0
    /\ Len(trunc_err_list) = Len(Scheduled) /\ Len(Scheduled) > 0

\* the update_data handed to post_update_local by the steps of the running
\* sweep, in order
RECURSIVE Recorded(_)
Recorded(t) ==
    IF t = <<>> THEN <<>>
    ELSE IF Head(t)[1] = "post_update_local"
         THEN <<Head(t)[3]>> \o Recorded(Tail(t))
         ELSE Recorded(Tail(t))

\* the largest of the numbers s[1].f, ..., s[n].f of a non-empty list of records
MaxErr(s) == CHOOSE m \in {s[j].err : j \in 1..Len(s)} : \A j \in 1..Len(s) : s[j].err <= m
MaxE(s) == CHOOSE m \in {s[j].E_trunc : j \in 1..Len(s)} : \A j \in 1..Len(s) : s[j].E_trunc <= m

\* C7: a sweep empties the two per-sweep lists when it starts, and what it
\* returns is the largest truncation error its own steps recorded together
\* with the largest energy shift they recorded when meas_E_trunc is true and
\* with none when it is false.
C7_ReturnValue ==
    [][/\ (InSweep' /\ ~InSweep) => (trunc_err_list' = <<>> /\ E_trunc_list' = <<>>)
       /\ (pc = "sweep_end" /\ pc' \in {"idle", "returned"}) =>
            /\ Recorded(trace) # <<>>
            /\ Len(Recorded(trace)) = Len(Scheduled)
            /\ ret' = Some(<<MaxErr(Recorded(trace)),
                             IF meas_E_trunc THEN Some(MaxE(Recorded(trace))) ELSE None>>)
      ]_vars

\* a second sweep has measured and returned: no step truncated in it, after
\* a step of the first sweep had
C7_Witness ==
    /\ pc = "idle" /\ op = "sweep"
    /\ ncalls = 2
    /\ ret = Some(<<0, Some(0)>>)
    /\ Len(E_trunc_list) > 1
    /\ engine_params.start_env = 0

\* C8: on an engine without a concrete local-update strategy a sweep fails
\* with NotImplementedError at its first scheduled step: no step is
\* completed and none follows, no left or right part is written into any
\* cache, and the sweep counter, chi_max and the mixer stay as they were.
C8_AbstractSweepFails ==
    [][(strategy = "abstract") =>
          /\ (TopLevel /\ op' = "sweep") => UNCHANGED <<caches, bookkeeping>>
          /\ pc = "loop" =>
                /\ k = 1
                /\ trace = <<>>
                /\ pc' \in {"error", "dead"}
                /\ err' = "NotImplementedError"
                /\ UNCHANGED <<caches, bookkeeping>>
      ]_vars

\* a sweep called on such an engine has failed
C8_Witness ==
    /\ strategy = "abstract"
    /\ pc = "error" /\ op = "sweep" /\ err = "NotImplementedError"
    /\ ncalls = 1 /\ trace = <<>>

\* the running sweep was started by mixer_cleanup
InCleanup == stack # <<>> /\ stack[Len(stack)].fn = "mixer_cleanup"

\* C9: mixer_cleanup on an engine with a mixer starts exactly one sweep,
\* with optimize = false; the mixer is None during all of it; when
\* mixer_cleanup returns the mixer is the one from before the call and the
\* sweep counter has not changed.  On an engine without a mixer it starts no
\* sweep and changes nothing.
C9_MixerCleanup ==
    [][/\ (TopLevel /\ op' = "mixer_cleanup" /\ mixer # None) =>
            /\ InSweep' /\ InCleanup' /\ ~optimize'
            /\ ncalls' = ncalls + 1
            /\ mixer' = None
            /\ stack'[1].mixer = mixer
            /\ UNCHANGED <<sweeps, chi_list, chi_max>>
       /\ (TopLevel /\ op' = "mixer_cleanup" /\ mixer = None) =>
            /\ pc' = "idle"
            /\ UNCHANGED <<bookkeeping, caches, lists, ncalls>>
       /\ InCleanup =>
            /\ Len(stack) = 1 /\ mixer = None /\ stack[1].mixer # None
            /\ UNCHANGED <<sweeps, chi_list, chi_max, ncalls>>
            /\ InSweep => (~optimize /\ mixer' = None)
            /\ pc = "returned" => (pc' = "idle" /\ mixer' = stack[1].mixer)
      ]_vars

\* mixer_cleanup has returned on an engine with a mixer, its sweep done
C9_Witness ==
    /\ pc = "idle" /\ op = "mixer_cleanup"
    /\ mixer # None
    /\ ncalls >= 1
    /\ trace # <<>>
    /\ Len(trunc_err_list) = Len(Scheduled)

\* C10: with targets to stay orthogonal to, init_env on an infinite chain
\* raises ValueError before it creates an overlap environment and before any
\* sweep starts; on a finite chain it creates one overlap environment per
\* target, each of its own target and with caches of its own.
C10_OrthogonalTo ==
    [][(pc \in {"init_env", "idle", "error"} /\ op' \in {"__init__", "init_env"}
        /\ engine_params.orthogonal_to > 0) =>
          IF finite
          THEN /\ reset_stats_ok => (pc' = "idle" /\ err' = "")
               /\ Len(ortho_to_envs') = engine_params.orthogonal_to
               /\ \A j \in 1..Len(ortho_to_envs') :
                     /\ ortho_to_envs'[j].ket = j
                     /\ ortho_to_envs'[j] = NewEnvironment(env.L, TRUE, "", j, 0, 0)
          ELSE /\ pc' \in {"dead", "error"}
               /\ err' = "ValueError(orthogonal_to)"
               /\ UNCHANGED <<ortho_to_envs, ncalls, trace, lists>>
               /\ ortho_to_envs = <<>>
      ]_vars

\* the engine of an infinite chain could not be built with targets to stay
\* orthogonal to
C10_Witness ==
    /\ ~finite
    /\ engine_params.orthogonal_to = 2
    /\ engine_params.start_env = 1
    /\ pc = "dead" /\ err = "ValueError(orthogonal_to)"
    /\ ortho_to_envs = <<>> /\ ncalls = 0

\* ============================================ mps_compress and apply_mpo
\* the arguments of the call are ones the function rejects
Rejected ==
    /\ cpc = "call"
    /\ \/ called = "mps_compress" /\ Get(psi).bc # "finite"
       \/ /\ called = "apply_mpo"
          /\ \/ Get(psi).bc # "finite"
             \/ Get(mpo).bc # "finite"
             \/ Get(psi).L # Get(mpo).L

\* C11: mps_compress called on a state that is not finite, and apply_mpo
\* called with a state or an operator that is not finite or with a state and
\* an operator of different lengths, raise an error before any tensor or
\* singular value vector of the state is read or written: the state is the
\* same after the call, no product tensor and no new state exist, and the
\* call gives no result.
C11_FailFast ==
    [][Rejected =>
         /\ cpc' = "raised"
         /\ result'[1] = "raised"
         /\ accesses' = <<>>
         /\ psi' = psi
         /\ Bs' = None /\ new_mps' = None /\ B' = None]_vars

C11_Witness ==
    /\ cpc = "raised" /\ called = "apply_mpo"
    /\ Get(psi).bc = "finite" /\ Get(mpo).bc = "finite"
    /\ Get(psi).L # Get(mpo).L
    /\ accesses = <<>>

\* ================================================= constructing the engine
\* C12: constructing the engine does not read an environment before one has
\* been built from the state and the model: __init__ does not end with the
\* NameError of the unbound name env.
C12_EnvironmentBuilt ==
    (op = "__init__" /\ pc = "dead") => err # "NameError(env)"

\* ================================================ the compressed state
\* the call has returned to its caller
Returned == cpc = "done" /\ result # None /\ result[1] = "returned"

\* what truncate() answered at bond i: the loop runs over the bonds L-1, ..., 1
AtBond(i) == truncated[Target.L - i]

\* C13: when mps_compress has returned, on every internal bond i in 1..L-1
\* the left leg of site i, the right leg of site i-1 and the singular value
\* vector of bond i all have the number of values kept at that bond as their
\* dimension, and that number is at most the cap of the truncation.
C13_BondsCapped ==
    Returned =>
        /\ Len(truncated) = Target.L - 1
        /\ \A i \in 1..(Target.L - 1) :
             /\ AtBond(i).bond = i
             /\ AtBond(i).kept <= Get(trunc_par)
             /\ Target.B[i].vL = AtBond(i).kept
             /\ Target.B[i - 1].vR = AtBond(i).kept
             /\ Target.S[i] = AtBond(i).kept

C13_Witness ==
    /\ Returned /\ called = "mps_compress"
    /\ Target.L = 3
    /\ \A i \in 1..2 : AtBond(i).kept < AtBond(i).of
    /\ Target.B[1].vL = 1 /\ Target.B[1].vR = 1

\* what the caller holds once the call has returned: the returned value
\* (None, or the new state) and the state that was compressed
ReturnedFields ==
    IF result[2] = "None" THEN {} ELSE DOMAIN Get(new_mps)

\* C14: when a run of mps_compress or apply_mpo ends, the caller is given a
\* figure of the weight discarded at the truncated bonds: the value returned
\* carries it, or the compressed state does.
C14_DiscardedWeightReported ==
    Returned => ("err" \in ReturnedFields \/ "err" \in DOMAIN Target)

\* ================================================ the effective Hamiltonians
\* C15: for OneSiteH and for TwoSiteH, applying the effective Hamiltonian
\* through the fused path (combine) gives what the unfused path gives, up to
\* the order of the legs: neither raises, and both contract the same leg pairs
\* of the left part, the operator tensors and the right part.
C15_FusedAsUnfused ==
    (pc = "loop" /\ combine) =>
        EffectiveH_matvec(length, TRUE) = EffectiveH_matvec(length, FALSE)

\* C16: building OneSiteH with combine succeeds: a pass of the loop of a
\* subclass's sweep does not end with the NameError of combine_Heff.
C16_OneSiteCombineBuilt ==
    (length = 1 /\ combine /\ strategy = "concrete" /\ op = "sweep") => err # "NameError"

\* ===================================================== the fused network
\* C17: in the network apply_mpo hands to mps_compress, the left leg of site
\* 0 and the right leg of site L-1 have the dimension they have in psi, for
\* every L >= 1, and on an internal bond both neighbouring sites have the
\* product of the bond dimensions of operator and state.
C17_OuterBondsKept ==
    Bs # None =>
        /\ Get(Bs)[0].vL = Get(psi).B[0].vL
        /\ Get(Bs)[Get(psi).L - 1].vR = Get(psi).B[Get(psi).L - 1].vR
        /\ \A j \in 1..(Get(psi).L - 1) :
             /\ Get(Bs)[j - 1].vR = Get(mpo).D * Get(psi).B[j - 1].vR
             /\ Get(Bs)[j].vL = Get(mpo).D * Get(psi).B[j].vL

\* ======================================================= re-initialisation
\* a call of init_env made on the engine from outside
ReInit == TopLevel /\ op' = "init_env"

\* the new environment starts from boundary parts of the ages a and b
StartsWith(a, b) ==
    /\ get_LP_age(env', 0) = Some(a)
    /\ get_RP_age(env', env'.L - 1) = Some(b)

Preserved == StartsWith(Get(get_LP_age(env, 0)), Get(get_RP_age(env, env.L - 1)))

Configured == StartsWith(engine_params.LP_age, engine_params.RP_age)

\* C18 as stated: on every chain, a re-initialisation against an operator
\* whose wL leg matches keeps the old boundary parts with their ages, and one
\* against an operator whose leg does not match starts from the configured
\* ones and emits the diagnostic.
C18_AsStated ==
    [][ReInit =>
         IF wL_leg(env'.H) = wL_leg(env.H)
         THEN Preserved
         ELSE Configured /\ "incompatible leg" \in warned']_vars

\* C18: on an infinite chain, a re-initialisation against an operator whose
\* wL leg matches keeps the old boundary parts with their ages and emits no
\* diagnostic about the leg; one against an operator whose leg does not
\* match starts from the configured boundary parts and ages, emits the
\* diagnostic, and the new environment is in place whatever the later steps
\* of init_env do.  On a finite chain the legs are not compared: the
\* environment always starts from the configured boundary parts, without
\* the diagnostic.
C18_ReInit ==
    [][ReInit =>
         /\ env'.H \in Models
         /\ IF finite
            THEN Configured /\ "incompatible leg" \notin warned'
            ELSE IF wL_leg(env'.H) = wL_leg(env.H)
            THEN Preserved /\ "incompatible leg" \notin warned'
            ELSE /\ Configured /\ "incompatible leg" \in warned'
                 /\ err' \in {"", "ValueError(orthogonal_to)",
                              "ValueError(max of an empty list)"}]_vars

C18_Witness ==
    /\ op = "init_env" /\ ~finite /\ env.H = "G"
    /\ "incompatible leg" \in warned
    /\ pc = "idle"

\* ======================================================= the order of writes
\* the set_B and set_SL calls made so far on the state being compressed
Writes == SelectSeq(accesses, LAMBDA a : a[1] # "get_B" /\ a[2] = obj)

\* the writes the claim lists for a chain of L sites
ExpectedWrites(L) ==
    [j \in 1..(L - 1) |-> <<"set_B", obj, j - 1, "None">>]
    \o [j \in 1..(2 * (L - 1)) |->
          IF j % 2 = 1 THEN <<"set_B", obj, L - ((j + 1) \div 2), "B">>
                       ELSE <<"set_SL", obj, L - (j \div 2)>>]
    \o << <<"set_B", obj, 0, "B">> >>

IsPrefix(s, t) == Len(s) <= Len(t) /\ s = SubSeq(t, 1, Len(s))

\* C19: mps_compress writes the state in this order and no other: sites
\* 0..L-2 in ascending order without form tag; then, for the bonds L-1..1 in
\* descending order, site i with the tag B followed by the singular values of
\* bond i; last site 0 with the tag B, holding the tensor left from the second
\* loop.  For L = 1 that last write is the only one and stores the tensor
\* that was read.
C19_WriteOrder ==
    ((cpc \in {"qr", "svd", "final", "compressed"} /\ result = None) \/ Returned) =>
        /\ IsPrefix(Writes, ExpectedWrites(Target.L))
        /\ cpc \in {"compressed", "done"} =>
             /\ Writes = ExpectedWrites(Target.L)
             /\ get_B(Target, 0) = Get(B)
             /\ Target.B[0].form = "B"

C19_Witness ==
    /\ Returned /\ called = "mps_compress"
    /\ Target.L = 3
    /\ Len(Writes) = 7
    /\ Writes[7] = <<"set_B", "psi", 0, "B">>

\* C20: when mps_compress or apply_mpo has returned, for every i in 0..L-2
\* the right leg of site i, the left leg of site i+1 and the singular value
\* vector of bond i+1 have the same dimension.
C20_BondInvariant ==
    Returned =>
        \A j \in 0..(Target.L - 2) :
            /\ Target.B[j].vR = Target.B[j + 1].vL
            /\ Target.B[j].vR = Target.S[j + 1]

C20_Witness ==
    /\ Returned /\ called = "apply_mpo"
    /\ Target.L = 3 /\ Get(mpo).D = 2
    /\ Target.B[0].vR = 2 /\ Target.B[1].vR = 1
    /\ \E j \in 1..2 : truncated[j].kept < truncated[j].of

\* ================================================ extending the environment
\* a pass of the loop of sweep() that runs through
StepRuns == pc = "loop" /\ step_raises = ""

\* the environment right after prepare_update(i0) built the effective
\* Hamiltonian
Prepared == EffectiveH_init(env, i0)

\* C21: for both lengths and both combine modes, a step at i0 with the
\* update-right flag stores the right part of the environment at index i0
\* and writes no other right part; a step with the update-left flag stores
\* the left part at i0 + 1 with the age of the left part at i0 plus one.
C21_UpdateIndices ==
    [][StepRuns =>
         /\ upd_env[2] =>
              /\ HasRP(env', i0)
              /\ \A j \in DOMAIN env.RP : j # Idx(env, i0) => env'.RP[j] = Prepared.RP[j]
         /\ upd_env[1] =>
              /\ HasLP(env', i0 + 1)
              /\ get_LP_age(env', i0 + 1) = Some(Get(get_LP_age(Prepared, i0)) + 1)]_vars

\* C22: on a finite chain no step of a sweep builds its effective
\* Hamiltonian from a cached part that is out of date: the left part read at
\* i0 and the right part read at i0 + length - 1 are the contractions of the
\* current tensors.
C22_NoStaleRead ==
    (StepRuns /\ finite) =>
        /\ ~LPStale(env, stale, i0)
        /\ ~RPStale(env, stale, i0 + length - 1)

\* ========================================================== priming sweeps
\* the running sweep was started by init_env, from __init__ or from outside
Priming == InSweep /\ op \in {"__init__", "init_env"}

\* C23: init_env runs sweeps on an infinite chain only, and only when
\* start_env > 0; the sweeps of init_env and of environment_sweeps run with
\* optimize = false, those of init_env with no mixer active and with the sweep
\* counter at the value sweep_0 that reset_stats gave it.
C23_PrimingSweeps ==
    /\ Priming =>
         /\ ~finite /\ engine_params.start_env > 0
         /\ ~optimize
         /\ sweeps = engine_params.sweep_0
         /\ mixer = None
    /\ (InSweep /\ op = "environment_sweeps") => ~optimize

\* ================================================================ chi_list
\* C24: with a chi_list that has a key <= sweep_0, after reset_stats and
\* after any sweeps chi_max is the entry of chi_list at its largest key that
\* is <= the sweep counter; with a chi_list that has no key <= sweep_0 the
\* construction fails and no engine is left to use.
C24_ChiMax ==
    /\ (chi_list # None /\ reset_stats_ok) =>
         chi_max = Some(Get(chi_list)[chi_key(Get(chi_list), sweeps)])
    /\ (engine_params.chi_list # None /\ ~reset_stats_ok
        /\ pc \notin {"__init__", "init_env", "schedule", "compress"}) =>
         (pc = "dead" /\ err # "")

C24_Witness ==
    /\ pc = "idle" /\ op = "sweep"
    /\ chi_list # None
    /\ sweeps = 3
    /\ chi_max = Some(30)

\* ============================================== mixer_cleanup that fails
\* C25: when mixer_cleanup ends, with its sweep done or failed at any step,
\* the engine has the mixer it had before the call.
C25_MixerKept ==
    [][(InCleanup /\ pc' \in {"idle", "error"}) => mixer' = stack[1].mixer]_vars

====
